---- MODULE Spec2Model ----
(***************************************************************************)
(* Trainer extensions of chainer_extensions: LogReport (log_report.py),    *)
(* graphviz_dot (graphviz_dot.py), ParameterStatisticsX                    *)
(* (parameter_statistics_x.py).                                            *)
(*                                                                         *)
(* Python values are encoded as follows.                                   *)
(*   Optional x : <<>> is None, <<x>> is the value x.                      *)
(*   dict       : a function whose DOMAIN is the set of keys.              *)
(*   number     : a triple <<kind, a, b>>: <<"int", v, 1>> is the int v,    *)
(*                <<"float", x, n>> is the float x / n, <<"null", 0, 1>>   *)
(*                is None inside a dict that goes to a file.               *)
(*   file       : <<>> when absent or empty, else its content as a         *)
(*                sequence of tokens.                                      *)
(***************************************************************************)
EXTENDS Integers, Sequences, FiniteSets, TLC

\* ------------------------------------------------------------------ bounds
MaxCalls == 3        \* calls of LogReport.__call__ over all runs
MaxRuns == 2         \* trainer processes started, one after the other
MaxSaves == 1        \* snapshots taken
IterPerEpoch == 2    \* iterations of the host trainer per epoch

\* ------------------------------------------------------------ value helpers
None == <<>>
Some(x) == <<x>>

IntVal(v) == <<"int", v, 1>>
FloatVal(x, n) == <<"float", x, n>>
Null == <<"null", 0, 1>>

EmptyDict == [k \in {} |-> Null]

Range(s) == {s[i] : i \in 1..Len(s)}

\* Op applied to the value of v, which is computed once.
Eager(v, Op(_)) == CHOOSE r \in {Op(x) : x \in {v}} : TRUE

\* Metric names the host trainer reports, and the values it reports for them.
Metrics == {"acc", "loss"}
Observations ==
    {[k \in {"loss"} |-> 1], [k \in {"acc", "loss"} |-> IF k = "loss" THEN 2 ELSE 1]}

\* sorted(): the metric names in lexicographic order.
SortedMetrics == <<"acc", "loss">>
Sorted(S) == SelectSeq(SortedMetrics, LAMBDA k : k \in S)

\* The keys argument of the constructor (None, or a list of names).
KeysArgs == {None, Some(<<"epoch", "loss", "acc", "loss">>)}
\* The log_json_name argument of the constructor (None, or a file name).
JsonNameArgs == {None, Some(<<"log">>)}

VARIABLES
    \* --- LogReport, one trainer process
    keysArg,        \* keys as passed to __init__
    jsonNameArg,    \* log_json_name as passed to __init__
    _keys,          \* self._keys
    _log,           \* self._log
    _summary,       \* self._summary: name -> [x, n] (running sum and count)
    _is_initialized,\* self._is_initialized
    _log_json_name, \* self._log_json_name
    iteration,      \* trainer.updater.iteration
    status,         \* "none" | "returned" | "raised": outcome of the last __call__
    ser,            \* the last serialize() call and what it did
    \* --- the output directory and the snapshot, which outlive a process
    csvFile,        \* content of <out>/log.csv
    jsonFile,       \* content of <out>/log
    snapshot,       \* Optional: what the last saving serialize() stored
    \* --- bookkeeping of the exploration
    ncalls, nruns, nsaves,
    restored,       \* whether serialize() loaded a snapshot into this instance
    interval,       \* the calls since the last flush: [obs, added], the observation
                    \* of the call and the dict it passed to summary.add
    lastFlush,      \* Optional: the interval the last call flushed
    lastFire,       \* whether the emit trigger fired in the last call
    \* --- graphviz_dot
    dotFiles,       \* file_list: what glob.glob returns under trainer.out
    dotInstalled,   \* whether the shell finds the 'dot' binary
    dotIteration,   \* trainer.updater.iteration
    dotCalled,      \* whether the extension has been called
    dotPassed,      \* the files passed to the renderer, in order
    dotFailed,      \* whether the render of some file failed
    dotWarned,      \* whether warnings.warn was called
    \* --- ParameterStatisticsX
    psConf,         \* the arguments of __init__ and the state of the parameters
    psIteration,    \* trainer.updater.iteration
    psCalled,       \* whether __call__ has been called
    psFired,        \* whether self._trigger fired in the last call
    psScalars,      \* the add_scalar calls of the last call, in order
    psHistograms    \* the add_histogram calls of the last call, in order

logVars == <<keysArg, jsonNameArg, _keys, _log, _summary, _is_initialized,
             _log_json_name, iteration, status, ser, csvFile, jsonFile, snapshot,
             ncalls, nruns, nsaves, restored, interval, lastFlush, lastFire>>
dotVars == <<dotFiles, dotInstalled, dotIteration, dotCalled, dotPassed, dotFailed,
             dotWarned>>
psVars == <<psConf, psIteration, psCalled, psFired, psScalars, psHistograms>>
vars == <<logVars, dotVars, psVars>>

\* ------------------------------------------------------ chainer.DictSummary
\* DictSummary.add(d): every value of d is added to the summary of its name.
DictSummaryAdd(s, d) ==
    [k \in DOMAIN s \cup DOMAIN d |->
        IF k \in DOMAIN d
        THEN IF k \in DOMAIN s
             THEN [x |-> s[k].x + d[k], n |-> s[k].n + 1]
             ELSE [x |-> d[k], n |-> 1]
        ELSE s[k]]

\* DictSummary.compute_mean(), then float(value) of every mean.
ComputeMean(s) == [k \in DOMAIN s |-> FloatVal(s[k].x, s[k].n)]

\* {k: observation[k] for k in keys if k in observation}
FilterObservation(observation, keys) ==
    [k \in Range(keys) \cap DOMAIN observation |-> observation[k]]

\* ------------------------------------------------------------------ the trainer
Epoch(it) == it \div IterPerEpoch
\* trainer.elapsed_time, read at iteration it (a monotone clock).
ElapsedTime(it) == FloatVal(it, 1)

\* ----------------------------------------------------------------- CSV file
\* Tokens of the CSV file: a field's text, the separator, the line end.
CsvKey(k) == [t |-> "key", k |-> k, v |-> Null]
CsvVal(v) == [t |-> "val", k |-> "", v |-> v]
CsvBlank == [t |-> "blank", k |-> " ", v |-> Null]
CsvComma == [t |-> "comma", k |-> ",", v |-> Null]
CsvNewline == [t |-> "nl", k |-> "\n", v |-> Null]

\* ','.join(parts): parts is a sequence of token sequences.
RECURSIVE JoinComma(_)
JoinComma(parts) ==
    IF Len(parts) = 0 THEN <<>>
    ELSE IF Len(parts) = 1 THEN parts[1]
    ELSE parts[1] \o <<CsvComma>> \o JoinComma(Tail(parts))

\* CsvField with ','.join('  ') for a missing key: two blanks, joined.
CsvFieldTwoBlanks(data, h) ==
    IF h \in DOMAIN data THEN <<CsvVal(data[h])>>
    ELSE JoinComma(<<<<CsvBlank>>, <<CsvBlank>>>>)

\* The text of one field of a data row: str(data[h]), or ','.join(' ') when the
\* key is missing, which joins the single character of the string ' '.
CsvField(data, h) ==
    IF h \in DOMAIN data THEN <<CsvVal(data[h])>> ELSE JoinComma(<<<<CsvBlank>>>>)

CsvRow(keys, data) ==
    JoinComma([i \in 1..Len(keys) |-> CsvField(data, keys[i])]) \o <<CsvNewline>>

CsvHeader(keys) ==
    JoinComma([i \in 1..Len(keys) |-> <<CsvKey(keys[i])>>]) \o <<CsvNewline>>

\* ---------------------------------------------------------------- JSON file
\* Tokens of the JSON file. An "obj" token is the text json.dumps gives for one
\* dict (its key: value pairs in the dict's order, indented by four spaces).
JsonTok(t) == [t |-> t, o |-> <<>>]
JsonObj(pairs) == [t |-> "obj", o |-> pairs]

\* entry = {key: data[key] if key in data else None for key in self._keys}
Entry(keys, data) ==
    [i \in 1..Len(keys) |->
        <<keys[i], IF keys[i] \in DOMAIN data THEN data[keys[i]] ELSE Null>>]

\* LogReport._write_json_log(path, _dict) on the file content f.
WriteJsonLog(f, pairs) ==
    IF Len(f) = 0
    THEN <<JsonTok("["), JsonTok("\n"), JsonObj(pairs), JsonTok("\n"), JsonTok("]")>>
    ELSE SubSeq(f, 1, Len(f) - 2)
         \o <<JsonTok(","), JsonTok("\n"), JsonObj(pairs), JsonTok("\n"), JsonTok("]")>>

\* LogReport._update(data) on the two files.
Update(before, keys, data) ==
    Eager(before, LAMBDA files :
        [csv |-> files.csv \o CsvRow(keys, data),
         json |-> WriteJsonLog(files.json, Entry(keys, data))])

\* for stats_cpu in self._log: self._update(stats_cpu)
RECURSIVE ReplayLog(_, _, _)
ReplayLog(files, keys, log) ==
    IF Len(log) = 0 THEN files
    ELSE ReplayLog(Update(files, keys, Head(log)), keys, Tail(log))

\* --------------------------------------------------------------- LogReport
BaseKeys == <<"epoch", "iteration", "elapsed_time">>

\* for k in keys: if k not in self._keys: self._keys.append(k)
RECURSIVE AppendNew(_, _)
AppendNew(acc, ks) ==
    IF Len(ks) = 0 THEN acc
    ELSE AppendNew(IF Head(ks) \in Range(acc) THEN acc ELSE Append(acc, Head(ks)),
                   Tail(ks))

\* The key list the first call fixes.
InitKeys(keys, summary) ==
    IF keys = None
    THEN BaseKeys \o Sorted(DOMAIN summary)
    ELSE AppendNew(BaseKeys, keys[1])

\* The dict __call__ passes to summary.add: the observation when self._keys is
\* None, else the observation restricted to self._keys.
Added(keys, observation) ==
    IF keys = None THEN observation ELSE FilterObservation(observation, keys[1])

\* summary.add(...) at the top of __call__.
Accumulate(keys, summary, observation) ==
    DictSummaryAdd(summary, Added(keys, observation))

\* os.path.join(trainer.out, name) raises TypeError when name is None.
JoinRaises(name) == name = None
JoinOut(name) == Some(<<"out">> \o name[1])

\* stats_cpu of a flush.
StatsCpu(summary, it) ==
    LET mean == ComputeMean(summary)
    IN  [k \in DOMAIN mean \cup Range(BaseKeys) |->
            IF k = "epoch" THEN IntVal(Epoch(it))
            ELSE IF k = "iteration" THEN IntVal(it)
            ELSE IF k = "elapsed_time" THEN ElapsedTime(it)
            ELSE mean[k]]

\* The block under "if self._init_trigger(trainer)": the header replaces the CSV
\* file (mode 'w+'), then the restored log is written through _update.
InitFiles(files, keys, log) ==
    ReplayLog([csv |-> CsvHeader(keys), json |-> files.json], keys, log)

\* The block under "if self._trigger(trainer)", on the files.
FlushFiles(files, keys, stats) == Update(files, keys, stats)

\* InitSummary without the reset: the summary goes on accumulating.
InitSummaryKept(summary) == summary

\* self._init_summary(): a fresh DictSummary replaces the summary.
InitSummary(summary) == EmptyDict

NoSer == [op |-> "none", keyError |-> FALSE, warned |-> FALSE, before |-> EmptyDict]

\* LogReport.__call__(trainer), after the trainer's update of this iteration.
\* observation is trainer.observation, fire what self._trigger(trainer) returns.
Call(observation, fire) ==
    /\ status # "raised"
    /\ ncalls < MaxCalls
    /\ LET it == iteration + 1
           summary1 == Accumulate(_keys, _summary, observation)
           first == ~_is_initialized
           keys1 == IF first THEN Some(InitKeys(_keys, summary1)) ELSE _keys
           raisesInit == first /\ JoinRaises(_log_json_name)
           files0 == [csv |-> csvFile, json |-> jsonFile]
           files1 == IF first THEN InitFiles(files0, keys1[1], _log) ELSE files0
           stats == StatsCpu(summary1, it)
           files2 == FlushFiles(files1, keys1[1], stats)
           interval1 == Append(interval, [obs |-> observation,
                                          added |-> Added(_keys, observation)])
       IN  /\ iteration' = it
           /\ ncalls' = ncalls + 1
           /\ _is_initialized' = TRUE
           /\ _keys' = keys1
           /\ ser' = NoSer
           /\ lastFire' = fire
           /\ UNCHANGED <<keysArg, jsonNameArg, snapshot, nruns, nsaves, restored>>
           /\ IF raisesInit
              THEN \* TypeError at the join of the JSON path: nothing after it runs
                   /\ status' = "raised"
                   /\ _summary' = summary1
                   /\ interval' = interval1
                   /\ lastFlush' = None
                   /\ UNCHANGED <<_log, _log_json_name, csvFile, jsonFile>>
              ELSE /\ status' = "returned"
                   /\ _log_json_name' = IF first THEN JoinOut(_log_json_name)
                                                 ELSE _log_json_name
                   /\ IF fire
                      THEN /\ _log' = Append(_log, stats)
                           /\ csvFile' = files2.csv
                           /\ jsonFile' = files2.json
                           /\ _summary' = InitSummary(summary1)
                           /\ interval' = <<>>
                           /\ lastFlush' = Some(interval1)
                      ELSE /\ _log' = _log
                           /\ csvFile' = files1.csv
                           /\ jsonFile' = files1.json
                           /\ _summary' = summary1
                           /\ interval' = interval1
                           /\ lastFlush' = None

\* json.dumps(self._log): every dict as its key: value pairs, in a fixed key order.
DumpOrder == BaseKeys \o SortedMetrics
DumpsDict(d) ==
    LET ks == SelectSeq(DumpOrder, LAMBDA k : k \in DOMAIN d)
    IN  [i \in 1..Len(ks) |-> <<ks[i], d[ks[i]]>>]
Dumps(log) == [i \in 1..Len(log) |-> DumpsDict(log[i])]

\* json.loads(log): every list of pairs back to a dict.
LoadsDict(pairs) ==
    [k \in {pairs[i][1] : i \in 1..Len(pairs)} |->
        pairs[CHOOSE i \in 1..Len(pairs) :
                /\ pairs[i][1] = k
                /\ \A j \in (i + 1)..Len(pairs) : pairs[j][1] # k][2]]
Loads(text) == [i \in 1..Len(text) |-> LoadsDict(text[i])]

\* SerializeLoadLog when the KeyError handler leaves serialize().
SerializeLoadLogSkipped(log, text, keyError) == IF keyError THEN log ELSE Loads(text)

\* The in-memory log after serialize(serializer) with a deserializer; keyError:
\* whether serializer['_summary'] raised KeyError before.
SerializeLoadLog(log, text, keyError) == Loads(text)

\* LogReport.serialize(serializer) with a Serializer (saving). keyError: whether
\* serializer['_summary'] raises KeyError.
Save(keyError) ==
    /\ status # "raised"
    /\ nsaves < MaxSaves
    /\ nsaves' = nsaves + 1
    /\ snapshot' = Some([log |-> Dumps(_log),
                         hasSummary |-> ~keyError,
                         summary |-> IF keyError THEN EmptyDict ELSE _summary,
                         iteration |-> iteration,
                         savedLog |-> _log,
                         interval |-> IF keyError THEN <<>> ELSE interval])
    /\ ser' = [op |-> "save", keyError |-> keyError, warned |-> keyError,
               before |-> _summary]
    /\ UNCHANGED <<keysArg, jsonNameArg, _keys, _log, _summary, _is_initialized,
                   _log_json_name, iteration, status, csvFile, jsonFile,
                   ncalls, nruns, restored, interval, lastFlush, lastFire>>

\* LogReport.serialize(serializer) with a deserializer, on an instance that has
\* not been called yet (the trainer is resumed before it runs). KeyError is
\* raised when the snapshot holds no '_summary'.
Load ==
    /\ ~_is_initialized
    /\ snapshot # None
    /\ ser.op # "load"
    /\ LET snap == snapshot[1]
           keyError == ~snap.hasSummary
       IN  /\ _summary' = IF keyError THEN _summary ELSE snap.summary
           /\ interval' = IF keyError THEN interval ELSE snap.interval
           /\ _log' = SerializeLoadLog(_log, snap.log, keyError)
           /\ restored' = TRUE
           /\ iteration' = snap.iteration
           /\ ser' = [op |-> "load", keyError |-> keyError, warned |-> keyError,
                      before |-> _summary]
    /\ UNCHANGED <<keysArg, jsonNameArg, _keys, _is_initialized, _log_json_name,
                   status, csvFile, jsonFile, snapshot, ncalls, nruns, nsaves, lastFlush,
                   lastFire>>

\* The trainer process ends and the training script is started again, with the
\* same arguments; cleanOut: it writes to an output directory that has no files.
Restart(cleanOut) ==
    /\ nruns < MaxRuns
    /\ status # "none"
    /\ nruns' = nruns + 1
    /\ _keys' = keysArg
    /\ _log' = <<>>
    /\ _summary' = EmptyDict
    /\ _is_initialized' = FALSE
    /\ _log_json_name' = jsonNameArg
    /\ iteration' = 0
    /\ status' = "none"
    /\ restored' = FALSE
    /\ ser' = NoSer
    /\ interval' = <<>>
    /\ lastFlush' = None
    /\ lastFire' = FALSE
    /\ csvFile' = IF cleanOut THEN <<>> ELSE csvFile
    /\ jsonFile' = IF cleanOut THEN <<>> ELSE jsonFile
    /\ UNCHANGED <<keysArg, jsonNameArg, snapshot, ncalls, nsaves>>

\* LogReport.__init__ in a new output directory.
LogInit ==
    /\ keysArg \in KeysArgs
    /\ jsonNameArg \in JsonNameArgs
    /\ _keys = keysArg
    /\ _log = <<>>
    /\ _summary = EmptyDict
    /\ _is_initialized = FALSE
    /\ _log_json_name = jsonNameArg
    /\ iteration = 0
    /\ status = "none"
    /\ ser = NoSer
    /\ csvFile = <<>>
    /\ jsonFile = <<>>
    /\ snapshot = None
    /\ ncalls = 0
    /\ nruns = 1
    /\ restored = FALSE
    /\ nsaves = 0
    /\ interval = <<>>
    /\ lastFlush = None
    /\ lastFire = FALSE

\* ------------------------------------------------------------ graphviz_dot
MaxDotFiles == 3     \* files under trainer.out that match the pattern
MaxDotIterations == 2

\* What subprocess.call(..., shell=True) does for one file: it returns 0, it
\* returns a non-zero exit status (127 when the shell finds no 'dot'), or it
\* raises (the shell could not be started, or an interrupt arrives).
DotOutcomes(installed) ==
    IF installed THEN {"ok", "failed", "raised"} ELSE {"failed", "raised"}

\* glob.glob: the matching files, each once, in an order glob chooses.
DotFileLists ==
    UNION {{f \in [1..n -> 1..MaxDotFiles] : \A i, j \in 1..n : f[i] = f[j] => i = j} :
              n \in 0..MaxDotFiles}

\* def trigger(trainer): return trainer.updater.iteration == 1
DotTrigger(it) == it = 1

\* The number of files the loop reaches: all of them, or up to the first one
\* for which subprocess.call raises.
DotReached(files, outcomes) ==
    IF \E i \in 1..Len(files) : outcomes[i] = "raised"
    THEN CHOOSE i \in 1..Len(files) :
            outcomes[i] = "raised" /\ \A j \in 1..(i - 1) : outcomes[j] # "raised"
    ELSE Len(files)

\* except: warnings.warn(...): only an exception reaches the handler.
DotWarns(files, outcomes) == \E i \in 1..Len(files) : outcomes[i] = "raised"

\* One iteration of the trainer; the extension graphviz_dot(trainer) runs when
\* its trigger fires. outcomes[i] is what subprocess.call does for file_list[i].
DotTrainerStep(outcomes) ==
    /\ dotIteration < MaxDotIterations
    /\ dotIteration' = dotIteration + 1
    /\ \A i \in 1..Len(dotFiles) : outcomes[i] \in DotOutcomes(dotInstalled)
    /\ IF DotTrigger(dotIteration')
       THEN LET n == DotReached(dotFiles, outcomes)
            IN  /\ dotCalled' = TRUE
                /\ dotPassed' = SubSeq(dotFiles, 1, n)
                /\ dotFailed' = \E i \in 1..n : outcomes[i] # "ok"
                /\ dotWarned' = DotWarns(dotFiles, outcomes)
       ELSE UNCHANGED <<dotCalled, dotPassed, dotFailed, dotWarned>>
    /\ UNCHANGED <<dotFiles, dotInstalled>>

DotIdle ==
    /\ dotFiles = <<>>
    /\ dotInstalled = TRUE
    /\ dotIteration = 0
    /\ dotCalled = FALSE
    /\ dotPassed = <<>>
    /\ dotFailed = FALSE
    /\ dotWarned = FALSE

DotInit ==
    /\ dotFiles \in DotFileLists
    /\ dotInstalled \in BOOLEAN
    /\ dotIteration = 0
    /\ dotCalled = FALSE
    /\ dotPassed = <<>>
    /\ dotFailed = FALSE
    /\ dotWarned = FALSE

\* ---------------------------------------------------- ParameterStatisticsX
MaxPsCalls == 2      \* calls of ParameterStatisticsX.__call__
\* The number of values the default 'percentile' statistic returns.
NPercentiles == 7

ParamW == <<"/", "W">>
ParamB == <<"/", "b">>
\* A link: its name (None for a link that is no child of a chain) and the
\* paths namedparams() yields.
Link(name, params) == [name |-> name, params |-> params]
PsLinkArgs ==
    {<<Link(None, <<ParamW>>)>>,
     <<Link(None, <<ParamW, ParamB>>), Link(None, <<ParamW>>)>>,
     <<Link(Some(<<"enc">>), <<ParamW>>), Link(Some(<<"dec">>), <<ParamW, ParamB>>)>>}

\* A statistic function: its name and the number of values it returns.
Stat(name, size) == [name |-> name, size |-> size]
PsStatisticsArgs ==
    {None, Some(<<Stat("mean", 1)>>),
     Some(<<Stat("mean", 1), Stat("percentile", NPercentiles)>>)}

PsConfs ==
    [links : PsLinkArgs, statistics : PsStatisticsArgs,
     report_params : BOOLEAN, report_grads : BOOLEAN,
     prefix : {None, Some(<<"pre">>)}, histogram : BOOLEAN,
     skip_nan_params : BOOLEAN, has_nan : BOOLEAN]

\* self._statistics: {} when statistics is None.
PsStatistics(conf) == IF conf.statistics = None THEN <<>> ELSE conf.statistics[1]

\* self._attrs
PsAttrs(conf) ==
    (IF conf.report_params THEN <<"data">> ELSE <<>>)
    \o (IF conf.report_grads THEN <<"grad">> ELSE <<>>)

\* link_name = getattr(link, 'name', 'None'), as format() prints it.
LinkName(link) == IF link.name = None THEN <<"None">> ELSE link.name[1]

\* prefix=self._prefix + '/' if self._prefix else ''
PrefixPart(conf) == IF conf.prefix = None THEN <<>> ELSE conf.prefix[1] \o <<"/">>

\* scalar_report_key_template.format(...)
ScalarKey(conf, link, param_name, attr_name, function_name) ==
    PrefixPart(conf) \o LinkName(link) \o param_name
    \o <<"/", attr_name, "/", function_name>>

\* histgram_report_key_template.format(...)
HistogramKey(conf, link, param_name, attr_name) ==
    PrefixPart(conf) \o LinkName(link) \o param_name \o <<"/", attr_name>>

\* str(i) for the index of an element of a multi-valued statistic.
Digits == <<"0", "1", "2", "3", "4", "5", "6", "7", "8", "9">>
\* '{}/{}'.format(key, i)
IndexedKey(key, i) == key \o <<"/", Digits[i + 1]>>

RECURSIVE Flatten(_)
Flatten(ss) == IF Len(ss) = 0 THEN <<>> ELSE Head(ss) \o Flatten(Tail(ss))

\* The iterations of the four nested loops, in order: <<link, parameter,
\* attribute, function>> as indices.
PsLoop(conf) ==
    Flatten([li \in 1..Len(conf.links) |->
      Flatten([pi \in 1..Len(conf.links[li].params) |->
        Flatten([ai \in 1..Len(PsAttrs(conf)) |->
          [fi \in 1..Len(PsStatistics(conf)) |-> <<li, pi, ai, fi>>]])])])

\* The number of values the loop iteration c computes: numpy.nan (one value)
\* when NaNs are skipped and the array holds one, else function(params).
PsValueSize(conf, c) ==
    IF conf.skip_nan_params /\ conf.has_nan THEN 1 ELSE PsStatistics(conf)[c[4]].size

\* One value: the loop iteration it was computed in and its index in the
\* result of the function ("" for a scalar result).
PsValue(c, elem) == [src |-> c, elem |-> elem]

\* statistics[key] = value on a dict kept as a sequence of items in insertion
\* order: an existing key keeps its place and takes the new value.
DictSet(dict, key, value) ==
    Eager(dict, LAMBDA items :
        IF \E i \in 1..Len(items) : items[i].key = key
        THEN [i \in 1..Len(items) |->
                 IF items[i].key = key THEN [key |-> key, value |-> value]
                 ELSE items[i]]
        ELSE Append(items, [key |-> key, value |-> value]))

\* statistics.update({'{}/{}'.format(key, i): v for i, v in enumerate(value)})
RECURSIVE DictSetIndexed(_, _, _, _, _)
DictSetIndexed(items, key, c, i, size) ==
    IF i >= size THEN items
    ELSE DictSetIndexed(DictSet(items, IndexedKey(key, i), PsValue(c, Digits[i + 1])),
                        key, c, i + 1, size)

\* The body of the innermost loop for iteration c, on [statistics, histograms].
PsLoopBody(conf, before, c, it) ==
    LET link == conf.links[c[1]]
        param_name == link.params[c[2]]
        attr_name == PsAttrs(conf)[c[3]]
        function_name == PsStatistics(conf)[c[4]].name
        key == ScalarKey(conf, link, param_name, attr_name, function_name)
        size == PsValueSize(conf, c)
    IN  Eager(before, LAMBDA acc :
            [statistics |->
                IF size > 1 THEN DictSetIndexed(acc.statistics, key, c, 0, size)
                ELSE DictSet(acc.statistics, key, PsValue(c, "")),
             histograms |->
                IF conf.histogram
                THEN Append(acc.histograms,
                            [key |-> HistogramKey(conf, link, param_name, attr_name),
                             src |-> <<c[1], c[2], c[3]>>, step |-> it])
                ELSE acc.histograms])

RECURSIVE PsRunLoop(_, _, _, _)
PsRunLoop(conf, acc, loop, it) ==
    IF Len(loop) = 0 THEN acc
    ELSE PsRunLoop(conf, PsLoopBody(conf, acc, Head(loop), it), Tail(loop), it)

\* ParameterStatisticsX.__call__(trainer); fire is what self._trigger returns.
PsCall(fire) ==
    /\ psIteration < MaxPsCalls
    /\ psIteration' = psIteration + 1
    /\ psCalled' = TRUE
    /\ psFired' = fire
    /\ IF fire
       THEN \E out \in {PsRunLoop(psConf, [statistics |-> <<>>, histograms |-> <<>>],
                                  PsLoop(psConf), psIteration + 1)} :
                /\ psHistograms' = out.histograms
                /\ psScalars' = [i \in 1..Len(out.statistics) |->
                                    [key |-> out.statistics[i].key,
                                     value |-> out.statistics[i].value,
                                     step |-> psIteration']]
       ELSE /\ psHistograms' = <<>>
            /\ psScalars' = <<>>
    /\ UNCHANGED psConf

PsIdle ==
    /\ psConf = [links |-> <<>>, statistics |-> None, report_params |-> TRUE,
                 report_grads |-> TRUE, prefix |-> None, histogram |-> TRUE,
                 skip_nan_params |-> FALSE, has_nan |-> FALSE]
    /\ psIteration = 0
    /\ psCalled = FALSE
    /\ psFired = FALSE
    /\ psScalars = <<>>
    /\ psHistograms = <<>>

PsInit ==
    /\ psConf \in PsConfs
    /\ psIteration = 0
    /\ psCalled = FALSE
    /\ psFired = FALSE
    /\ psScalars = <<>>
    /\ psHistograms = <<>>

\* LogReport left as constructed, for the specifications of the other extensions.
LogIdle == LogInit /\ keysArg = None /\ jsonNameArg = None

\* ------------------------------------------------------- the specifications
Init == LogInit /\ DotIdle /\ PsIdle

Next ==
    \/ \E observation \in Observations, fire \in BOOLEAN :
           Call(observation, fire) /\ UNCHANGED <<dotVars, psVars>>
    \/ \E keyError \in BOOLEAN : Save(keyError) /\ UNCHANGED <<dotVars, psVars>>
    \/ Load /\ UNCHANGED <<dotVars, psVars>>
    \/ \E cleanOut \in BOOLEAN : Restart(cleanOut) /\ UNCHANGED <<dotVars, psVars>>

Spec == Init /\ [][Next]_vars

\* graphviz_dot alone.
DotNext ==
    \E outcomes \in [1..Len(dotFiles) -> {"ok", "failed", "raised"}] :
        DotTrainerStep(outcomes) /\ UNCHANGED <<logVars, psVars>>
InitDot == LogIdle /\ DotInit /\ PsIdle
SpecDot == InitDot /\ [][DotNext]_vars

\* ParameterStatisticsX alone.
PsNext == \E fire \in BOOLEAN : PsCall(fire) /\ UNCHANGED <<logVars, dotVars>>
InitStats == LogIdle /\ DotIdle /\ PsInit
SpecStats == InitStats /\ [][PsNext]_vars

\* ------------------------------------------------------- reading the files
\* text.split(sep) on a token sequence: the chunks between the tokens of type sep.
RECURSIVE SplitOn(_, _)
SplitOn(f, sep) ==
    IF \A i \in 1..Len(f) : f[i].t # sep THEN <<f>>
    ELSE LET i == CHOOSE j \in 1..Len(f) :
                      f[j].t = sep /\ \A l \in 1..(j - 1) : f[l].t # sep
         IN  <<SubSeq(f, 1, i - 1)>> \o SplitOn(SubSeq(f, i + 1, Len(f)), sep)

\* The lines of the CSV file, as a reader sees them; every line ends with '\n'.
CsvLines(f) ==
    LET chunks == SplitOn(f, "nl")
    IN  IF chunks[Len(chunks)] = <<>> THEN SubSeq(chunks, 1, Len(chunks) - 1)
        ELSE chunks
CsvFields(line) == SplitOn(line, "comma")
CsvRows(f) == IF Len(CsvLines(f)) = 0 THEN <<>> ELSE Tail(CsvLines(f))

\* The field a reader expects in the column of key h for the dict data.
ExpectedField(data, h) ==
    IF h \in DOMAIN data THEN <<CsvVal(data[h])>> ELSE <<CsvBlank>>

\* The pairs of an "obj" token name every key once.
ObjWellFormed(pairs) ==
    \A i, j \in 1..Len(pairs) : pairs[i][1] = pairs[j][1] => i = j

\* json.loads accepts the file: '[' '\n' obj (',' '\n' obj)* '\n' ']'.
JsonWellFormed(f) ==
    /\ Len(f) >= 5
    /\ (Len(f) - 5) % 3 = 0
    /\ f[1].t = "[" /\ f[2].t = "\n"
    /\ f[Len(f) - 1].t = "\n" /\ f[Len(f)].t = "]"
    /\ \A i \in 1..((Len(f) - 2) \div 3) :
          /\ f[3 * i].t = "obj"
          /\ ObjWellFormed(f[3 * i].o)
          /\ i > 1 => f[3 * i - 2].t = "," /\ f[3 * i - 1].t = "\n"

\* The array json.loads returns for a well-formed file, [] for an absent one.
JsonObjects(f) ==
    IF Len(f) = 0 THEN <<>>
    ELSE [i \in 1..((Len(f) - 2) \div 3) |-> LoadsDict(f[3 * i].o)]

\* The dict a reader expects in the array for the log entry data.
EntryDict(keys, data) ==
    [k \in Range(keys) |-> IF k \in DOMAIN data THEN data[k] ELSE Null]

\* The observations of an interval, and the dicts its calls added to the summary.
RawOf(calls) == [i \in 1..Len(calls) |-> calls[i].obs]
AddedOf(calls) == [i \in 1..Len(calls) |-> calls[i].added]

\* The names some observation of the sequence obs carries.
NamesOf(obs) == UNION {DOMAIN obs[i] : i \in 1..Len(obs)}

RECURSIVE SumOf(_, _)
SumOf(obs, k) ==
    IF Len(obs) = 0 THEN 0
    ELSE (IF k \in DOMAIN Head(obs) THEN Head(obs)[k] ELSE 0) + SumOf(Tail(obs), k)
CountOf(obs, k) == Cardinality({i \in 1..Len(obs) : k \in DOMAIN obs[i]})
\* The mean of the values the observations of obs give for k.
MeanOf(obs, k) == FloatVal(SumOf(obs, k), CountOf(obs, k))

\* A step that is a call of __call__ which returned.
CallReturned == ncalls' = ncalls + 1 /\ status' = "returned"

\* --------------------------------------------------------------------------
\* C1. After every call of LogReport.__call__ the JSON log file is absent/empty
\* or a well-formed top-level JSON array that holds exactly one object per
\* flush performed so far (the entries of the in-memory log), in flush order.
C1_JsonOneObjectPerFlush ==
    status = "returned" =>
        /\ Len(jsonFile) = 0 \/ JsonWellFormed(jsonFile)
        /\ JsonObjects(jsonFile)
             = [i \in 1..Len(_log) |-> EntryDict(_keys[1], _log[i])]

\* What does hold of the JSON file in every state: it is absent/empty or a
\* well-formed array, and a call only ever appends objects to the array.
JsonAlwaysWellFormed == Len(jsonFile) = 0 \/ JsonWellFormed(jsonFile)
JsonAppendOnly ==
    [][ncalls' = ncalls + 1 =>
          /\ Len(JsonObjects(jsonFile')) >= Len(JsonObjects(jsonFile))
          /\ SubSeq(JsonObjects(jsonFile'), 1, Len(JsonObjects(jsonFile)))
               = JsonObjects(jsonFile)]_vars

\* --------------------------------------------------------------------------
\* C2. After the first __call__ and any number of further calls the CSV file is
\* one header row equal to the key list (epoch, iteration, elapsed_time, then
\* the metric keys, each once) followed by one data row per flush in flush
\* order, every data row with as many comma-separated fields as the header,
\* also when a key is missing from the flushed snapshot; later calls of the
\* same instance do not rewrite the header.
C2_CsvState ==
    status = "returned" =>
        LET lines == CsvLines(csvFile)
            keys == _keys[1]
        IN  /\ SubSeq(keys, 1, 3) = BaseKeys
            /\ \A i, j \in 1..Len(keys) : keys[i] = keys[j] => i = j
            /\ \A i \in 4..Len(keys) : keys[i] \in Metrics
            /\ Len(lines) = 1 + Len(_log)
            /\ CsvFields(lines[1]) = [j \in 1..Len(keys) |-> <<CsvKey(keys[j])>>]
            /\ \A i \in 1..Len(_log) :
                  /\ Len(CsvFields(lines[i + 1])) = Len(CsvFields(lines[1]))
                  /\ CsvFields(lines[i + 1])
                       = [j \in 1..Len(keys) |-> ExpectedField(_log[i], keys[j])]
C2_HeaderKept ==
    (CallReturned /\ _is_initialized) => CsvLines(csvFile')[1] = CsvLines(csvFile)[1]
C2_CsvHeaderAndRows == [](C2_CsvState) /\ [][C2_HeaderKept]_vars

\* A flush has written a row in which a key of the header was missing.
C2_Witness ==
    /\ status = "returned"
    /\ Len(_log) >= 2
    /\ \E i \in 1..Len(_log) : \E j \in 1..Len(_keys[1]) :
          _keys[1][j] \notin DOMAIN _log[i]

\* --------------------------------------------------------------------------
\* C3. When the emit trigger fires, the entry appended to the log is the mean of
\* exactly the observations added since the previous flush, and the summary is
\* a fresh empty DictSummary after the call.
C3_FlushState ==
    (status = "returned" /\ lastFlush # None) =>
        LET e == _log[Len(_log)]
            obs == AddedOf(lastFlush[1])
        IN  /\ DOMAIN e = Range(BaseKeys) \cup NamesOf(obs)
            /\ \A k \in DOMAIN e \ Range(BaseKeys) : e[k] = MeanOf(obs, k)
            /\ e["iteration"] = IntVal(iteration)
            /\ _summary = EmptyDict
            /\ interval = <<>>
\* ... and when it does not fire, the summary keeps accumulating and the log is
\* unchanged.
C3_NoFireLog ==
    (CallReturned /\ ~lastFire') =>
        /\ _log' = _log
        /\ \A k \in DOMAIN _summary' :
              /\ _summary'[k].x = SumOf(AddedOf(interval'), k)
              /\ _summary'[k].n = CountOf(AddedOf(interval'), k)
        /\ DOMAIN _summary' = NamesOf(AddedOf(interval'))
        /\ interval' = Append(interval, interval'[Len(interval')])
\* ... and so are the CSV rows and the JSON entries.
C3_NoFireFiles ==
    (CallReturned /\ ~lastFire') =>
        /\ CsvRows(csvFile') = CsvRows(csvFile)
        /\ JsonObjects(jsonFile') = JsonObjects(jsonFile)
\* C3 as stated.
C3_Original == [](C3_FlushState) /\ [][C3_NoFireLog /\ C3_NoFireFiles]_vars
\* C3 as amended: the files are unchanged by a call in which the trigger does
\* not fire, unless it is the first call of the instance, which writes the CSV
\* header and the restored log.
C3_Amended ==
    [](C3_FlushState)
    /\ [][C3_NoFireLog /\ (_is_initialized => C3_NoFireFiles)]_vars

\* A restored instance, whose first call did not fire, has flushed an interval
\* of two observations after the flush it restored.
C3_Witness ==
    /\ status = "returned"
    /\ restored
    /\ lastFlush # None
    /\ Len(lastFlush[1]) = 2
    /\ Len(_log) = 2

\* --------------------------------------------------------------------------
\* C4. With keys=None every metric name that occurred in an observation of the
\* flush interval appears with its mean in the JSON entry and in the CSV row
\* of that flush.
C4_AllValuesOutput ==
    (keysArg = None /\ status = "returned" /\ lastFlush # None) =>
        LET obs == RawOf(lastFlush[1])
            objs == JsonObjects(jsonFile)
            lines == CsvLines(csvFile)
            header == CsvFields(lines[1])
            row == CsvFields(lines[Len(lines)])
        IN  \A k \in NamesOf(obs) :
               /\ k \in DOMAIN objs[Len(objs)]
               /\ objs[Len(objs)][k] = MeanOf(obs, k)
               /\ \E j \in 1..Len(header) :
                     header[j] = <<CsvKey(k)>> /\ row[j] = <<CsvVal(MeanOf(obs, k))>>

\* --------------------------------------------------------------------------
\* C5. With log_json_name None every __call__ completes without raising, no
\* JSON file is written, and flushed entries still reach the in-memory log.
C5_NoFileWhenNameIsNone ==
    jsonNameArg = None =>
        /\ status # "raised"
        /\ jsonFile = <<>>
        /\ (status = "returned" /\ lastFire) => Len(_log) >= 1

C9_FilesMatchLogAfterRestore ==
    (restored /\ status = "returned") =>
        /\ CsvRows(csvFile)
             = [i \in 1..Len(_log) |->
                   JoinComma([j \in 1..Len(_keys[1]) |->
                                 ExpectedField(_log[i], _keys[1][j])])]
        /\ JsonObjects(jsonFile)
             = [i \in 1..Len(_log) |-> EntryDict(_keys[1], _log[i])]

\* --------------------------------------------------------------------------
\* C6. When the 'dot' binary is missing or the render of a file fails, the
\* extension returns normally, a warning is issued, and every matching file has
\* been passed to the renderer exactly once.
C6_FailureWarnedAllFilesPassed ==
    dotCalled =>
        /\ dotFailed => dotWarned
        /\ dotPassed = dotFiles

\* --------------------------------------------------------------------------
\* The add_scalar calls of the last call that carry the value of loop
\* iteration c (element elem of it) under key, with the current iteration as step.
ScalarPushes(key, c, elem) ==
    {i \in 1..Len(psScalars) :
        /\ psScalars[i].key = key
        /\ psScalars[i].value = PsValue(c, elem)
        /\ psScalars[i].step = psIteration}

\* C8. On a call in which the trigger fires, for every link, parameter, enabled
\* attribute and statistic function exactly one scalar (one per element for a
\* multi-valued statistic, the index appended to the key) is pushed under
\* '[prefix/]link_name param_name/attr_name/function_name' with the iteration
\* as step, so no two combinations are merged; otherwise nothing is pushed.
C8_OneScalarPerCombination ==
    psCalled =>
        IF psFired
        THEN \A n \in 1..Len(PsLoop(psConf)) :
                LET c == PsLoop(psConf)[n]
                    link == psConf.links[c[1]]
                    key == ScalarKey(psConf, link, link.params[c[2]],
                                     PsAttrs(psConf)[c[3]],
                                     PsStatistics(psConf)[c[4]].name)
                    size == PsValueSize(psConf, c)
                IN  IF size > 1
                    THEN \A e \in 0..(size - 1) :
                            Cardinality(ScalarPushes(IndexedKey(key, e), c,
                                                     Digits[e + 1])) = 1
                    ELSE Cardinality(ScalarPushes(key, c, "")) = 1
        ELSE psScalars = <<>>

\* --------------------------------------------------------------------------
\* The (link, parameter, attribute) triples of the configuration, as indices.
PsTriples(conf) ==
    UNION {{<<li, pi, ai>> : pi \in 1..Len(conf.links[li].params),
                             ai \in 1..Len(PsAttrs(conf))} :
              li \in 1..Len(conf.links)}

\* C10. With histogram=True, on a call in which the trigger fires exactly one
\* histogram is pushed per (link, parameter, enabled attribute), keyed
\* '[prefix/]link_name param_name/attr_name' with the iteration as step,
\* whatever the number of statistic functions; with histogram=False none is.
C10_OneHistogramPerParameter ==
    psCalled =>
        IF psFired /\ psConf.histogram
        THEN /\ \A t \in PsTriples(psConf) :
                  Cardinality({i \in 1..Len(psHistograms) :
                      /\ psHistograms[i].src = t
                      /\ psHistograms[i].key
                           = HistogramKey(psConf, psConf.links[t[1]],
                                          psConf.links[t[1]].params[t[2]],
                                          PsAttrs(psConf)[t[3]])
                      /\ psHistograms[i].step = psIteration}) = 1
             /\ Len(psHistograms) = Cardinality(PsTriples(psConf))
        ELSE psHistograms = <<>>

====
